---- MODULE Spec2Model ----
(***************************************************************************)
(* Host side of the EEPROM programmer protocol (eepro/eepro.py): the       *)
(* acknowledged link, the escape codec, the write and read frames and the  *)
(* verifier, stepped one transport call at a time.  The programmer at the  *)
(* other end of the serial line is the environment: it chooses every byte  *)
(* and every line the host reads.                                          *)
(***************************************************************************)
EXTENDS Integers, Sequences, FiniteSets, TLC

\* ------------------------------------------------------------------ bounds
\* longest file content, fill length and read-back, in bytes
MaxLen == 2
\* public methods called in one behaviour
MaxOps == 2
\* residual bytes after which the serial buffer runs empty
MaxDrain == 1
\* the progress counter of the read loop is kept modulo this
ProgressWrap == 2

\* longest input of format_hex: two full lines of 8 bytes and one byte more
MaxHexLen == 17

\* ------------------------------------------------- protocol constants
esc_char == 27
end_char == 4
ack_char == 6

\* what Serial.read() yields when the timeout expires: b""
NoByte == -1

\* byte values the programmer sends in a read frame
PayloadBytes == {end_char, esc_char, ack_char, 255}

\* start addresses the caller passes (one and two decimal digits)
StartAddrs == {0, 10}

\* fill bytes the caller passes to fill / check_filled
FillValues == {255}

\* EEPROM cells the bounded operations can touch
Cells == UNION {a..(a + MaxLen - 1) : a \in StartAddrs}

\* a path that cannot be opened
Missing == <<NoByte>>

\* byte values of the files the caller provides
FileBytes == {end_char, esc_char, ack_char}

Contents == UNION {[1..n -> FileBytes] : n \in 0..MaxLen}

\* answers of the programmer to one acknowledged send: ACK, a wrong byte, silence
AckResponses == {ack_char, 255, NoByte}

\* non-empty lines left in the serial buffer after a missing acknowledge
ResidualLines == {<<69, 10>>, <<255>>}

\* ------------------------------------------------------------ conversions
\* f"{n}".encode("ascii") for a non-negative n
RECURSIVE Dec(_)
Dec(n) ==
  IF n < 10 THEN <<48 + n>> ELSE Dec(n \div 10) \o <<48 + (n % 10)>>

IsSpace(b) == b \in {9, 10, 11, 12, 13, 32}

IsDigit(b) == b \in 48..57

RECURSIVE StripLeft(_)
StripLeft(s) ==
  IF s # <<>> /\ IsSpace(Head(s)) THEN StripLeft(Tail(s)) ELSE s

RECURSIVE StripRight(_)
StripRight(s) ==
  IF s # <<>> /\ IsSpace(s[Len(s)]) THEN StripRight(SubSeq(s, 1, Len(s) - 1)) ELSE s

RECURSIVE DigitsValue(_)
DigitsValue(s) ==
  IF s = <<>> THEN 0 ELSE 10 * DigitsValue(SubSeq(s, 1, Len(s) - 1)) + (s[Len(s)] - 48)

\* int(response): surrounding white space is dropped, then decimal digits are
\* required; anything else (the empty line of a timeout included) is ValueError
IntParses(line) ==
  LET t == StripRight(StripLeft(line))
  IN  t # <<>> /\ \A k \in 1..Len(t) : IsDigit(t[k])

IntValue(line) == DigitsValue(StripRight(StripLeft(line)))

\* trailing count lines the programmer may send
CountLines ==
  {<<>>, <<88, 10>>} \cup {Dec(n) \o <<10>> : n \in 0..(2 * MaxLen)}

\* bytes.decode("ascii") succeeds only on 7-bit values
DecodesAscii(s) == \A k \in 1..Len(s) : s[k] < 128

\* ------------------------------------------------------------ escape codec
\* escape_byte that leaves ESCAPE bytes alone
escape_byte_OnlyEnd(byte) ==
  IF byte = end_char THEN <<esc_char, byte>> ELSE <<byte>>

\* escape_byte that prefixes with END, as its docstring words it
escape_byte_EndPrefix(byte) ==
  IF byte \in {end_char, esc_char} THEN <<end_char, byte>> ELSE <<byte>>

escape_byte(byte) ==
  IF byte \in {end_char, esc_char} THEN <<esc_char, byte>> ELSE <<byte>>

RECURSIVE escape_file_contents(_)
escape_file_contents(contents) ==
  IF contents = <<>> THEN <<>>
  ELSE escape_file_contents(SubSeq(contents, 1, Len(contents) - 1))
         \o escape_byte(contents[Len(contents)])

\* FillBytes(fill_byte, length): fill_byte * length
FillBytes(b, n) == [k \in 1..n |-> b]

\* ------------------------------------------------------------------ state
VARIABLES
  pc,              \* position of the running operation
  aw,              \* position inside acknowledged_write: call, wait, drain
  op,              \* public method the caller invoked
  file,            \* kind of the file argument: path, stream, fill
  start_address,
  length,
  fill_byte,
  raw_content,
  escaped_content,
  idx,             \* position of the write loop in escaped_content
  wire,            \* bytes written to the transport in this frame
  sends,           \* acknowledged_write calls in this frame
  acks,            \* ACK bytes read in this frame
  reply,           \* what the last self.read() of acknowledged_write returned
  drained,         \* flush_read_buffer's content
  rx,              \* bytes the read loop got from the transport
  content,         \* read_contents' accumulating buffer
  response,        \* the trailing count line
  ret,             \* value read_contents returned
  fault,           \* the error as first raised inside the operation
  outcome,         \* what the caller of the public method receives
  detail,          \* args[1] of the raised error
  mem,             \* the EEPROM behind the programmer
  disk,            \* contents of the file at the path, or Missing
  stream_data,     \* contents of the opened file-like object
  stream_pos,      \* its read position
  nops,            \* operations finished so far
  progress,        \* read_contents' tqdm counter, modulo ProgressWrap
  mpc,             \* position of main
  port,            \* the serial port: unopened, open, closed
  dtr,             \* the reset control line
  reported,        \* error class main printed to stderr
  margs,           \* the parsed command line
  hex_in,          \* format_hex: in_bytes
  hex_i,           \* format_hex: bytes consumed by the loop
  hex_str,         \* format_hex: formatted_str
  hex_out          \* format_hex: the returned list

vars ==
  <<pc, aw, op, file, start_address, length, fill_byte, raw_content,
    escaped_content, idx, wire, sends, acks, reply, drained, rx, content,
    response, ret, fault, outcome, detail, mem, disk, stream_data, stream_pos,
    nops, progress, mpc, port, dtr, reported, margs, hex_in, hex_i, hex_str,
    hex_out>>

frame == <<wire, sends, acks, reply, drained, rx, content, response>>

args == <<op, file, start_address, length, fill_byte>>

store == <<mem, disk, stream_data, stream_pos>>

mainvars == <<mpc, port, dtr, reported, margs>>

hexvars == <<hex_in, hex_i, hex_str, hex_out>>

others == <<mainvars, hexvars>>

\* format_hex has not returned
NoLines == <<<<NoByte>>>>

\* the command line of a process that only imports the module
NoArgs == [clear |-> FALSE, check_empty |-> FALSE, mode |-> "none", verify |-> FALSE, size |-> 0]

NoResult == <<NoByte>>

SendPcs == {"w_tok", "w_addr", "w_payload", "w_end", "r_tok", "r_addr", "r_len"}

AssertionErrors == {"InvalidEscape", "CountMismatch", "ContentMismatch", "NotFilled"}

\* the protocol engine between two operations
InitEngine ==
  /\ pc = "idle" /\ aw = "call" /\ op = "none" /\ file = "none"
  /\ start_address = 0 /\ length = 0 /\ fill_byte = 255
  /\ raw_content = <<>> /\ escaped_content = <<>> /\ idx = 1
  /\ wire = <<>> /\ sends = 0 /\ acks = 0 /\ reply = NoByte /\ drained = <<>>
  /\ rx = <<>> /\ content = <<>> /\ response = <<>>
  /\ ret = NoResult /\ fault = "none" /\ outcome = "none" /\ detail = <<>>
  /\ mem = [c \in Cells |-> 255]
  /\ \/ \E c \in Contents : disk = c /\ stream_data = c
     \/ disk = Missing /\ stream_data = <<>>
  /\ stream_pos = 0
  /\ nops = 0
  /\ progress = 0

\* format_hex is not running
InitHexIdle ==
  /\ hex_in = <<>> /\ hex_i = 0 /\ hex_str = <<>> /\ hex_out = NoLines

\* an EEProgrammer opened by a caller that uses the methods directly
Init ==
  /\ InitEngine
  /\ InitHexIdle
  /\ mpc = "library" /\ port = "open" /\ dtr = FALSE /\ reported = "none"
  /\ margs = NoArgs

\* ---------------------------------------------------------- content source
\* what file.read() (or open(file, "rb").read()) hands to the caller
SourceBytes ==
  CASE file = "path"   -> disk
    [] file = "stream" -> SubSeq(stream_data, stream_pos + 1, Len(stream_data))
    [] file = "fill"   -> FillBytes(fill_byte, length)

SourceFails == file = "path" /\ disk = Missing

\* read() leaves an opened file-like object at its end
SourcePosAfter ==
  IF file = "stream" THEN Len(stream_data) ELSE stream_pos

\* ------------------------------------------------------- error propagation
\* the except clause of check_filled: formatting the bytes object fill_byte
\* with 02X raises before the new AssertionError is built
check_filled_except(exc) == "TypeError"

\* the error the caller of the public method receives when exc is raised
Propagate(exc) ==
  IF op = "check_filled" /\ exc \in AssertionErrors
  THEN check_filled_except(exc) ELSE exc

\* ------------------------------------------------------- acknowledged link
\* the argument of the acknowledged_write call at this position
Token ==
  CASE pc = "w_tok"     -> <<119, 32>>
    [] pc = "w_addr"    -> Dec(start_address)
    [] pc = "w_payload" -> <<escaped_content[idx]>>
    [] pc = "w_end"     -> <<end_char>>
    [] pc = "r_tok"     -> <<114, 32>>
    [] pc = "r_addr"    -> Dec(start_address)
    [] pc = "r_len"     -> Dec(length)

\* AfterAck with the write loop falling through to the count line: END is not sent
AfterAck_SkipEnd ==
  CASE pc = "w_tok"     -> "w_addr"
    [] pc = "w_addr"    -> "w_load"
    [] pc = "w_payload" -> IF idx < Len(escaped_content) THEN "w_payload" ELSE "w_count"
    [] pc = "w_end"     -> "w_count"
    [] pc = "r_tok"     -> "r_addr"
    [] pc = "r_addr"    -> "r_len"
    [] pc = "r_len"     -> "r_loop"

\* the statement that follows the acknowledged_write call at this position
AfterAck ==
  CASE pc = "w_tok"     -> "w_addr"
    [] pc = "w_addr"    -> "w_load"
    [] pc = "w_payload" -> IF idx < Len(escaped_content) THEN "w_payload" ELSE "w_end"
    [] pc = "w_end"     -> "w_count"
    [] pc = "r_tok"     -> "r_addr"
    [] pc = "r_addr"    -> "r_len"
    [] pc = "r_len"     -> "r_loop"

\* the programmer stores the frame it acknowledged; cell number stuck (0: none)
\* keeps its old value
Program(m, a, c, stuck) ==
  [x \in DOMAIN m |->
     IF x \in a..(a + Len(c) - 1) /\ (x - a + 1) # stuck THEN c[x - a + 1] ELSE m[x]]

\* self.write(byte); self.flush()
Send ==
  /\ UNCHANGED <<progress, others>>
  /\ pc \in SendPcs /\ aw = "call"
  /\ wire' = wire \o Token
  /\ sends' = sends + 1
  /\ aw' = "wait"
  /\ UNCHANGED <<pc, args, raw_content, escaped_content, idx, acks, reply,
                 drained, rx, content, response, ret, fault, outcome, detail, store,
                 nops>>

\* self.read() == ack_char
Acked ==
  /\ UNCHANGED <<progress, others>>
  /\ pc \in SendPcs /\ aw = "wait"
  /\ reply' = ack_char
  /\ acks' = acks + 1
  /\ pc' = AfterAck
  /\ aw' = "call"
  /\ idx' = IF pc = "w_payload" THEN idx + 1 ELSE idx
  /\ IF pc = "w_end"
     THEN \E stuck \in 0..Len(raw_content) :
            mem' = Program(mem, start_address, raw_content, stuck)
     ELSE mem' = mem
  /\ UNCHANGED <<args, raw_content, escaped_content, wire, sends, drained, rx,
                 content, response, ret, fault, outcome, detail, disk, stream_data,
                 stream_pos, nops>>

\* self.read() != ack_char: a wrong byte or a timeout
NotAcked ==
  /\ UNCHANGED <<progress, others>>
  /\ pc \in SendPcs /\ aw = "wait"
  /\ reply' \in AckResponses \ {ack_char}
  /\ aw' = "drain"
  /\ drained' = <<>>
  /\ UNCHANGED <<pc, args, raw_content, escaped_content, idx, wire, sends, acks,
                 rx, content, response, ret, fault, outcome, detail, store, nops>>

\* flush_read_buffer: one readline() that returned a line
DrainLine ==
  /\ UNCHANGED <<progress, others>>
  /\ aw = "drain" /\ pc \in SendPcs
  /\ Len(drained) < MaxDrain
  /\ \E line \in ResidualLines : drained' = drained \o line
  /\ UNCHANGED <<pc, aw, args, raw_content, escaped_content, idx, wire, sends,
                 acks, reply, rx, content, response, ret, fault, outcome, detail,
                 store, nops>>

\* DrainEnd that sends the unacknowledged token again instead of raising
DrainEnd_Retry ==
  /\ UNCHANGED <<progress, others>>
  /\ aw = "drain" /\ pc \in SendPcs
  /\ aw' = "call"
  /\ UNCHANGED <<pc, args, raw_content, escaped_content, idx, frame, ret, fault,
                 outcome, detail, store, nops>>

\* flush_read_buffer: readline() returned b""; decode and raise ConnectionError
DrainEnd ==
  /\ UNCHANGED <<progress, others>>
  /\ aw = "drain" /\ pc \in SendPcs
  /\ pc' = "done"
  /\ IF DecodesAscii(drained)
     THEN /\ fault' = "LinkFault"
          /\ outcome' = Propagate("LinkFault")
          /\ detail' = drained
     ELSE /\ fault' = "UnicodeDecodeError"
          /\ outcome' = Propagate("UnicodeDecodeError")
          /\ detail' = <<>>
  /\ UNCHANGED <<aw, args, raw_content, escaped_content, idx, frame, ret,
                 store, nops>>

\* ------------------------------------------------------------ write frame
\* write_file: obtain raw_content and escape it, after the header was sent
WriteLoad ==
  /\ UNCHANGED <<progress, others>>
  /\ pc = "w_load"
  /\ IF SourceFails
     THEN /\ pc' = "done"
          /\ fault' = "OSError" /\ outcome' = Propagate("OSError")
          /\ UNCHANGED <<raw_content, escaped_content, stream_pos>>
     ELSE /\ raw_content' = SourceBytes
          /\ escaped_content' = escape_file_contents(SourceBytes)
          /\ stream_pos' = SourcePosAfter
          /\ pc' = IF SourceBytes = <<>> THEN "w_end" ELSE "w_payload"
          /\ UNCHANGED <<fault, outcome>>
  /\ idx' = 1
  /\ UNCHANGED <<aw, args, frame, ret, detail, mem, disk, stream_data, nops>>

\* the result of int(response) and of the comparison that follows it
CountOutcome(line, expected) ==
  IF ~IntParses(line) THEN "ValueError"
  ELSE IF IntValue(line) # expected THEN "CountMismatch"
  ELSE "ok"

\* write_file: response = self.readline(); compare with len(raw_content)
WriteCount ==
  /\ UNCHANGED <<progress, others>>
  /\ pc = "w_count"
  /\ \E line \in CountLines :
       /\ response' = line
       /\ fault' = CountOutcome(line, Len(raw_content))
       /\ outcome' = Propagate(CountOutcome(line, Len(raw_content)))
  /\ pc' = "done"
  /\ UNCHANGED <<aw, args, raw_content, escaped_content, idx, wire, sends, acks,
                 reply, drained, rx, content, ret, detail, store, nops>>

\* ------------------------------------------------------------- read frame
\* verify_file: obtain raw_content; its length is the length to read
VerifyLoad ==
  /\ UNCHANGED <<progress, others>>
  /\ pc = "v_load"
  /\ IF SourceFails
     THEN /\ pc' = "done"
          /\ fault' = "OSError" /\ outcome' = Propagate("OSError")
          /\ UNCHANGED <<raw_content, length, stream_pos>>
     ELSE /\ raw_content' = SourceBytes
          /\ length' = Len(SourceBytes)
          /\ stream_pos' = SourcePosAfter
          /\ pc' = "r_tok"
          /\ UNCHANGED <<fault, outcome>>
  /\ UNCHANGED <<aw, op, file, start_address, fill_byte, escaped_content, idx,
                 frame, ret, detail, mem, disk, stream_data, nops>>

\* read_contents: char = self.read() at the top of the loop
ReadLoop ==
  /\ UNCHANGED others
  /\ pc = "r_loop"
  /\ \E char \in PayloadBytes \cup {NoByte} :
       CASE char = end_char ->
              /\ rx' = Append(rx, char)
              /\ pc' = "r_count"
              /\ progress' = 0
              /\ UNCHANGED content
         [] char = esc_char ->
              /\ Len(content) < MaxLen
              /\ rx' = Append(rx, char)
              /\ pc' = "r_esc"
              /\ UNCHANGED <<content, progress>>
         [] char = NoByte ->
              /\ progress' = (progress + 1) % ProgressWrap
              /\ UNCHANGED <<rx, pc, content>>
         [] OTHER ->
              /\ Len(content) < MaxLen
              /\ rx' = Append(rx, char)
              /\ content' = Append(content, char)
              /\ progress' = (progress + 1) % ProgressWrap
              /\ UNCHANGED pc
  /\ UNCHANGED <<aw, args, raw_content, escaped_content, idx, wire, sends, acks,
                 reply, drained, response, ret, fault, outcome, detail, store, nops>>

\* ReadEscaped without the check of the escaped character
ReadEscaped_AcceptsAny ==
  /\ UNCHANGED others
  /\ pc = "r_esc"
  /\ \E char \in PayloadBytes \cup {NoByte} :
       /\ rx' = Append(rx, char)
       /\ content' = IF char = NoByte THEN content ELSE Append(content, char)
       /\ progress' = (progress + 1) % ProgressWrap
       /\ pc' = "r_loop"
  /\ UNCHANGED <<aw, args, raw_content, escaped_content, idx, wire, sends, acks,
                 reply, drained, response, ret, fault, outcome, detail, store,
                 nops>>

\* read_contents: char = self.read() after an escape character
ReadEscaped ==
  /\ UNCHANGED others
  /\ pc = "r_esc"
  /\ \E char \in PayloadBytes \cup {NoByte} :
       /\ rx' = Append(rx, char)
       /\ IF char \in {end_char, esc_char}
          THEN /\ content' = Append(content, char)
               /\ progress' = (progress + 1) % ProgressWrap
               /\ pc' = "r_loop"
               /\ UNCHANGED <<fault, outcome>>
          ELSE /\ fault' = "InvalidEscape" /\ outcome' = Propagate("InvalidEscape")
               /\ pc' = "done"
               /\ progress' = 0
               /\ UNCHANGED content
  /\ UNCHANGED <<aw, args, raw_content, escaped_content, idx, wire, sends, acks,
                 reply, drained, response, ret, detail, store, nops>>

\* AfterRead comparing the lengths only
AfterRead_LengthOnly(eeprom_content) ==
  IF op \in {"verify_file", "check_filled"} /\ Len(raw_content) # Len(eeprom_content)
  THEN "ContentMismatch" ELSE "ok"

\* what the caller of read_contents does with the returned bytes
AfterRead(eeprom_content) ==
  IF op \in {"verify_file", "check_filled"} /\ raw_content # eeprom_content
  THEN "ContentMismatch" ELSE "ok"

\* ReadCount comparing the count with the length of the unescaped buffer
ReadCount_LogicalLength ==
  /\ UNCHANGED <<progress, others>>
  /\ pc = "r_count"
  /\ \E line \in CountLines :
       LET res == CountOutcome(line, Len(content))
       IN  /\ response' = line
           /\ IF res = "ok"
              THEN /\ ret' = content
                   /\ fault' = AfterRead(content)
                   /\ outcome' = Propagate(AfterRead(content))
                   /\ disk' = IF op = "read_file" THEN content ELSE disk
              ELSE /\ fault' = res /\ outcome' = Propagate(res)
                   /\ UNCHANGED <<ret, disk>>
  /\ pc' = "done"
  /\ UNCHANGED <<aw, args, raw_content, escaped_content, idx, wire, sends, acks,
                 reply, drained, rx, content, detail, mem, stream_data,
                 stream_pos, nops>>

\* ReadCount with read_file saving the buffer whatever the count line says
ReadCount_SavesFirst ==
  /\ UNCHANGED <<progress, others>>
  /\ pc = "r_count"
  /\ \E line \in CountLines :
       LET res == CountOutcome(line, Len(escape_file_contents(content)))
       IN  /\ response' = line
           /\ disk' = IF op = "read_file" THEN content ELSE disk
           /\ IF res = "ok"
              THEN /\ ret' = content
                   /\ fault' = AfterRead(content)
                   /\ outcome' = Propagate(AfterRead(content))
              ELSE /\ fault' = res /\ outcome' = Propagate(res)
                   /\ UNCHANGED ret
  /\ pc' = "done"
  /\ UNCHANGED <<aw, args, raw_content, escaped_content, idx, wire, sends, acks,
                 reply, drained, rx, content, detail, mem, stream_data,
                 stream_pos, nops>>

\* read_contents: the count line after END, the return, and the caller's use
\* of the returned bytes (read_file saves them, verify_file compares them)
ReadCount ==
  /\ UNCHANGED <<progress, others>>
  /\ pc = "r_count"
  /\ \E line \in CountLines :
       LET res == CountOutcome(line, Len(escape_file_contents(content)))
       IN  /\ response' = line
           /\ IF res = "ok"
              THEN /\ ret' = content
                   /\ fault' = AfterRead(content)
                   /\ outcome' = Propagate(AfterRead(content))
                   /\ disk' = IF op = "read_file" THEN content ELSE disk
              ELSE /\ fault' = res /\ outcome' = Propagate(res)
                   /\ UNCHANGED <<ret, disk>>
  /\ pc' = "done"
  /\ UNCHANGED <<aw, args, raw_content, escaped_content, idx, wire, sends, acks,
                 reply, drained, rx, content, detail, mem, stream_data,
                 stream_pos, nops>>

\* ------------------------------------------------------- the public methods
\* state of a frame before its first byte is sent
NewFrame ==
  /\ aw' = "call"
  /\ raw_content' = <<>> /\ escaped_content' = <<>> /\ idx' = 1
  /\ wire' = <<>> /\ sends' = 0 /\ acks' = 0 /\ reply' = NoByte
  /\ drained' = <<>> /\ rx' = <<>> /\ content' = <<>> /\ response' = <<>>
  /\ ret' = NoResult /\ fault' = "none" /\ outcome' = "none" /\ detail' = <<>>
  /\ progress' = 0

\* write_file(file, start_address)
CallWriteFile ==
  /\ UNCHANGED others
  /\ pc = "idle" /\ nops < MaxOps
  /\ op' = "write_file"
  /\ file' \in {"path", "stream"}
  /\ start_address' \in StartAddrs
  /\ pc' = "w_tok"
  /\ NewFrame
  /\ UNCHANGED <<length, fill_byte, store, nops>>

\* fill(fill_byte, length, start_address)
CallFill ==
  /\ UNCHANGED others
  /\ pc = "idle" /\ nops < MaxOps
  /\ op' = "fill"
  /\ file' = "fill"
  /\ fill_byte' \in FillValues
  /\ length' \in 0..MaxLen
  /\ start_address' \in StartAddrs
  /\ pc' = "w_tok"
  /\ NewFrame
  /\ UNCHANGED <<store, nops>>

\* read_file(file, length, start_address)
CallReadFile ==
  /\ UNCHANGED others
  /\ pc = "idle" /\ nops < MaxOps
  /\ op' = "read_file"
  /\ file' = "path"
  /\ length' \in 0..MaxLen
  /\ start_address' \in StartAddrs
  /\ pc' = "r_tok"
  /\ NewFrame
  /\ UNCHANGED <<fill_byte, store, nops>>

\* verify_file(file, start_address)
CallVerifyFile ==
  /\ UNCHANGED others
  /\ pc = "idle" /\ nops < MaxOps
  /\ op' = "verify_file"
  /\ file' \in {"path", "stream"}
  /\ start_address' \in StartAddrs
  /\ pc' = "v_load"
  /\ NewFrame
  /\ UNCHANGED <<length, fill_byte, store, nops>>

\* check_filled(fill_byte, length, start_address)
CallCheckFilled ==
  /\ UNCHANGED others
  /\ pc = "idle" /\ nops < MaxOps
  /\ op' = "check_filled"
  /\ file' = "fill"
  /\ fill_byte' \in FillValues
  /\ length' \in 0..MaxLen
  /\ start_address' \in StartAddrs
  /\ pc' = "v_load"
  /\ NewFrame
  /\ UNCHANGED <<store, nops>>

\* the method returned or raised: the caller has the result
Return ==
  /\ UNCHANGED others
  /\ pc = "done"
  /\ pc' = "idle"
  /\ nops' = nops + 1
  /\ op' = "none" /\ file' = "none"
  /\ start_address' = 0 /\ length' = 0 /\ fill_byte' = 255
  /\ NewFrame
  /\ UNCHANGED store

Next ==
  \/ CallWriteFile
  \/ CallFill
  \/ CallReadFile
  \/ CallVerifyFile
  \/ CallCheckFilled
  \/ Send
  \/ Acked
  \/ NotAcked
  \/ DrainLine
  \/ DrainEnd
  \/ WriteLoad
  \/ WriteCount
  \/ VerifyLoad
  \/ ReadLoop
  \/ ReadEscaped
  \/ ReadCount
  \/ Return

Spec == Init /\ [][Next]_vars

\* ---------------------------------------------------------------------
\* format_hex: text is a sequence of character codes

\* "{:X}": the uppercase hexadecimal digits of n, no padding
RECURSIVE HexDigits(_)
HexDigits(n) ==
  LET d == n % 16
      c == IF d < 10 THEN 48 + d ELSE 55 + d
  IN  IF n < 16 THEN <<c>> ELSE Append(HexDigits(n \div 16), c)

\* "{:0wX}": zero-padded on the left to at least w digits
HexField(n, w) ==
  LET ds == HexDigits(n)
  IN  [k \in 1..(IF Len(ds) < w THEN w - Len(ds) ELSE 0) |-> 48] \o ds

\* address = "0x{:04X}:    "
address_format(i) == <<48, 120>> \o HexField(i, 4) \o <<58, 32, 32, 32, 32>>

\* byte = "{:02X} "
byte_format(b) == HexField(b, 2) \o <<32>>

\* str.split("\n"): the pieces between the separators, empty pieces included
RECURSIVE SplitLines(_, _)
SplitLines(str, cur) ==
  IF str = <<>> THEN <<cur>>
  ELSE IF Head(str) = 10 THEN <<cur>> \o SplitLines(Tail(str), <<>>)
  ELSE SplitLines(Tail(str), Append(cur, Head(str)))

\* the bytes of the docstring example, b'0123456789ABCDEF'
DocExample == <<48, 49, 50, 51, 52, 53, 54, 55, 56, 57, 65, 66, 67, 68, 69, 70>>

\* in_bytes: every length 0..MaxHexLen, of the example, of a run of bytes from
\* 0 and of a run that passes 0xFF
HexInputs ==
  {SubSeq(DocExample, 1, n) : n \in 0..Len(DocExample)}
    \cup {[k \in 1..n |-> (b + k) % 256] : n \in 0..MaxHexLen, b \in {0, 249}}

\* format_hex called with in_bytes, nothing else running
HexInit ==
  /\ InitEngine /\ disk = Missing
  /\ mpc = "library" /\ port = "open" /\ dtr = FALSE /\ reported = "none"
  /\ margs = NoArgs
  /\ hex_in \in HexInputs
  /\ hex_i = 0 /\ hex_str = <<>> /\ hex_out = NoLines

\* one iteration of `for i, in_byte in enumerate(in_bytes)`
HexByte ==
  /\ hex_out = NoLines /\ hex_i < Len(hex_in)
  /\ hex_str' = hex_str
       \o (IF hex_i % 8 = 0 THEN <<10>> \o address_format(hex_i)
           ELSE IF hex_i % (8 \div 2) = 0 THEN <<32>> ELSE <<>>)
       \o byte_format(hex_in[hex_i + 1])
  /\ hex_i' = hex_i + 1
  /\ UNCHANGED <<hex_in, hex_out, mainvars, progress>>
  /\ UNCHANGED <<pc, aw, args, raw_content, escaped_content, idx, frame, ret,
                 fault, outcome, detail, store, nops>>

\* return formatted_str.split("\n")
HexReturn ==
  /\ hex_out = NoLines /\ hex_i = Len(hex_in)
  /\ hex_out' = SplitLines(hex_str, <<>>)
  /\ UNCHANGED <<hex_in, hex_i, hex_str, mainvars, progress>>
  /\ UNCHANGED <<pc, aw, args, raw_content, escaped_content, idx, frame, ret,
                 fault, outcome, detail, store, nops>>

HexNext ==
  \/ HexByte
  \/ HexReturn

HexSpec == HexInit /\ [][HexNext]_vars

\* ---------------------------------------------------------------------
\* main: the command line tool

\* --size values given on the command line
MainSizes == {1, MaxLen}

\* parsed arguments that pass the two parser.error checks; --file is given;
\* size 0 stands for an absent (or zero) --size, which `not args.size` rejects
\* for clear, check-empty and read
MainArgs ==
  {a \in [clear : BOOLEAN, check_empty : BOOLEAN, mode : {"write", "read", "none"},
          verify : BOOLEAN, size : {0} \cup MainSizes] :
     (a.clear \/ a.check_empty \/ a.mode = "read") => a.size # 0}

\* positions of main while a method of the programmer runs
InStages == {"in_clear", "in_check", "in_rw", "in_verify"}

\* positions of main inside reset, before time.sleep(2) has returned
InReset == {"reset", "pulse", "pulsed", "settle"}

\* positions of main inside the with block
InWith == InReset \cup InStages \cup {"clear", "check", "rw", "verify", "leave", "unwind"}

\* except (ConnectionError, AssertionError)
Caught == {"LinkFault"} \cup AssertionErrors

\* the statement after the one that returned
StageAfter(m) ==
  CASE m = "in_clear"  -> "check"
    [] m = "in_check"  -> "rw"
    [] m = "in_rw"     -> "verify"
    [] m = "in_verify" -> "leave"

\* main after parse_args and the two checks, the port not opened yet
MainInit ==
  /\ InitEngine
  /\ InitHexIdle
  /\ mpc = "parsed" /\ port = "unopened" /\ dtr = FALSE /\ reported = "none"
  /\ margs \in MainArgs

\* with EEProgrammer(args.port, args.baud, timeout=1) as programmer: the port
\* opens, the control line in the state the driver gives it
MainOpen ==
  /\ mpc = "parsed"
  /\ port' = "open"
  /\ dtr' \in BOOLEAN
  /\ mpc' = "reset"
  /\ UNCHANGED <<reported, margs, hexvars, progress>>
  /\ UNCHANGED <<pc, aw, args, raw_content, escaped_content, idx, frame, ret,
                 fault, outcome, detail, store, nops>>

\* a step of main or reset that touches neither the engine nor the port
MainOnly ==
  /\ UNCHANGED <<port, reported, margs, hexvars, progress>>
  /\ UNCHANGED <<pc, aw, args, raw_content, escaped_content, idx, frame, ret,
                 fault, outcome, detail, store, nops>>

\* reset: self.dtr = False in place of self.dtr = True
ResetAssert_Low ==
  /\ mpc = "reset"
  /\ dtr' = FALSE
  /\ mpc' = "pulse"
  /\ MainOnly

\* reset: self.dtr = True
ResetAssert ==
  /\ mpc = "reset"
  /\ dtr' = TRUE
  /\ mpc' = "pulse"
  /\ MainOnly

\* reset: time.sleep(0.11)
ResetPulse ==
  /\ mpc = "pulse"
  /\ mpc' = "pulsed"
  /\ UNCHANGED dtr
  /\ MainOnly

\* reset: self.dtr = False
ResetRelease ==
  /\ mpc = "pulsed"
  /\ dtr' = FALSE
  /\ mpc' = "settle"
  /\ MainOnly

\* reset: time.sleep(2), and the return to main
ResetSettle ==
  /\ mpc = "settle"
  /\ mpc' = "clear"
  /\ UNCHANGED dtr
  /\ MainOnly

\* main skips a statement whose flag is not set
MainSkip(next) ==
  /\ mpc' = next
  /\ UNCHANGED <<port, dtr, reported, margs, hexvars, progress>>
  /\ UNCHANGED <<pc, aw, args, raw_content, escaped_content, idx, frame, ret,
                 fault, outcome, detail, store, nops>>

\* main calls a method of the programmer on args.file and args.size, with
\* the default start address
MainCall(o, f, len, first, within) ==
  /\ pc = "idle"
  /\ op' = o /\ file' = f /\ start_address' = 0 /\ length' = len
  /\ fill_byte' = 255
  /\ pc' = first
  /\ NewFrame
  /\ mpc' = within
  /\ UNCHANGED <<port, dtr, reported, margs, hexvars, store, nops>>

\* if args.clear: programmer.fill(b"\xff", args.size)
MainClear ==
  /\ mpc = "clear"
  /\ IF margs.clear
     THEN MainCall("fill", "fill", margs.size, "w_tok", "in_clear")
     ELSE MainSkip("check")

\* if args.check_empty: programmer.check_filled(b"\xff", args.size)
MainCheckEmpty ==
  /\ mpc = "check"
  /\ IF margs.check_empty
     THEN MainCall("check_filled", "fill", margs.size, "v_load", "in_check")
     ELSE MainSkip("rw")

\* if args.write: write_file(args.file) elif args.read: read_file(args.file,
\* args.size, 0x00)
MainWriteOrRead ==
  /\ mpc = "rw"
  /\ CASE margs.mode = "write" -> MainCall("write_file", "path", length, "w_tok", "in_rw")
       [] margs.mode = "read"  -> MainCall("read_file", "path", margs.size, "r_tok", "in_rw")
       [] OTHER                -> MainSkip("verify")

\* if args.verify: programmer.verify_file(args.file)
MainVerify ==
  /\ mpc = "verify"
  /\ IF margs.verify
     THEN MainCall("verify_file", "path", length, "v_load", "in_verify")
     ELSE MainSkip("leave")

\* what main does with the state of the engine once a method is over
MainDone(next) ==
  /\ pc' = "idle"
  /\ op' = "none" /\ file' = "none"
  /\ start_address' = 0 /\ length' = 0 /\ fill_byte' = 255
  /\ NewFrame
  /\ mpc' = next
  /\ UNCHANGED <<port, dtr, margs, hexvars, store, nops>>

\* the method returned: main goes on with the next statement
MainReturn ==
  /\ mpc \in InStages /\ pc = "done" /\ outcome = "ok"
  /\ MainDone(StageAfter(mpc))
  /\ UNCHANGED reported

\* except (ConnectionError, AssertionError) as err: print to stderr
MainCatch ==
  /\ mpc \in InStages /\ pc = "done" /\ outcome \in Caught
  /\ reported' = outcome
  /\ MainDone("leave")

\* any other exception leaves the try statement uncaught
MainRaise ==
  /\ mpc \in InStages /\ pc = "done" /\ outcome \notin Caught \cup {"ok"}
  /\ MainDone("unwind")
  /\ UNCHANGED reported

\* the with block is left at its end: Serial.__exit__ closes the port
MainClose ==
  /\ mpc = "leave"
  /\ port' = "closed"
  /\ mpc' = "exit"
  /\ UNCHANGED <<dtr, reported, margs, hexvars, progress>>
  /\ UNCHANGED <<pc, aw, args, raw_content, escaped_content, idx, frame, ret,
                 fault, outcome, detail, store, nops>>

\* an exception that unwinds through the with block but leaves the port open
MainUnwind_Leak ==
  /\ mpc = "unwind"
  /\ mpc' = "crashed"
  /\ UNCHANGED <<port, dtr, reported, margs, hexvars, progress>>
  /\ UNCHANGED <<pc, aw, args, raw_content, escaped_content, idx, frame, ret,
                 fault, outcome, detail, store, nops>>

\* the with block is left by an exception: Serial.__exit__ closes the port
\* and the exception ends the process
MainUnwind ==
  /\ mpc = "unwind"
  /\ port' = "closed"
  /\ mpc' = "crashed"
  /\ UNCHANGED <<dtr, reported, margs, hexvars, progress>>
  /\ UNCHANGED <<pc, aw, args, raw_content, escaped_content, idx, frame, ret,
                 fault, outcome, detail, store, nops>>

MainNext ==
  \/ MainOpen
  \/ ResetAssert
  \/ ResetPulse
  \/ ResetRelease
  \/ ResetSettle
  \/ MainClear
  \/ MainCheckEmpty
  \/ MainWriteOrRead
  \/ MainVerify
  \/ Send
  \/ Acked
  \/ NotAcked
  \/ DrainLine
  \/ DrainEnd
  \/ WriteLoad
  \/ WriteCount
  \/ VerifyLoad
  \/ ReadLoop
  \/ ReadEscaped
  \/ ReadCount
  \/ MainReturn
  \/ MainCatch
  \/ MainRaise
  \/ MainClose
  \/ MainUnwind

MainSpec == MainInit /\ [][MainNext]_vars

\* one write_file or read_file call run to its end: the frame steps alone, no
\* further call after it
LiveNext ==
  \/ CallWriteFile
  \/ CallReadFile
  \/ Send
  \/ Acked
  \/ NotAcked
  \/ DrainLine
  \/ DrainEnd
  \/ WriteLoad
  \/ WriteCount
  \/ ReadLoop
  \/ ReadEscaped
  \/ ReadCount

\* every transport call returns (timeout=1) and the interpreter keeps running,
\* so a method that can take a step takes one
LiveSpec == Init /\ [][LiveNext]_vars /\ WF_vars(LiveNext)

TypeOK ==
  /\ pc \in SendPcs \cup {"idle", "w_load", "w_count", "v_load", "r_loop", "r_esc", "r_count", "done"}
  /\ aw \in {"call", "wait", "drain"}
  /\ outcome \in {"none", "ok", "LinkFault", "UnicodeDecodeError", "OSError",
                  "ValueError", "TypeError"} \cup AssertionErrors
  /\ nops \in 0..MaxOps
  /\ mpc \in {"library", "parsed", "exit", "crashed"} \cup InWith
  /\ port \in {"unopened", "open", "closed"}
  /\ dtr \in BOOLEAN
  /\ reported \in {"none"} \cup Caught
  /\ progress \in 0..(ProgressWrap - 1)

\* ================================================================= claims
\* reference renderings used by the properties below
Decimal(n) ==
  IF n < 10 THEN <<48 + n>> ELSE <<48 + (n \div 10), 48 + (n % 10)>>

RECURSIVE Escaped(_)
Escaped(S) ==
  IF S = <<>> THEN <<>>
  ELSE (IF Head(S) \in {27, 4} THEN <<27, Head(S)>> ELSE <<Head(S)>>) \o Escaped(Tail(S))

Specials(S) == Cardinality({k \in 1..Len(S) : S[k] \in {27, 4}})

WriteOps == {"write_file", "fill"}

ReadOps == {"read_file", "verify_file", "check_filled"}

\* C1: in every reachable state the bytes written to the transport in the
\* frame exceed the ACKs consumed by at most one, command token and address
\* digits included.
C1_AtMostOneUnacknowledged == Len(wire) - acks <= 1

\* C2: when the response to an acknowledged send was not ACK (a wrong byte or
\* a timeout), the send ends in a Link Fault that carries the drained residual
\* bytes, whatever those bytes are, and in no other kind of error.
C2_NonAckIsLinkFault ==
  (pc = "done" /\ aw = "drain") =>
    /\ reply # ack_char
    /\ fault = "LinkFault"
    /\ detail = drained

\* C3: a write that meets no fault has put on the wire exactly "w ", the
\* decimal start address, the escaped content in order and one END; the count
\* line is read only once END is acknowledged and nothing is sent afterwards;
\* the payload sends number len(content) plus its ESCAPE and END bytes.
C3_WriteFrameOrder ==
  /\ (op \in WriteOps /\ (pc = "w_count" \/ (pc = "done" /\ outcome = "ok"))) =>
       /\ wire = <<119, 32>> \o Decimal(start_address) \o Escaped(raw_content) \o <<4>>
       /\ sends = 3 + Len(raw_content) + Specials(raw_content)
       /\ acks = sends
  /\ (op \in WriteOps /\ pc \in {"w_tok", "w_addr", "w_load", "w_payload", "w_end", "w_count"}) =>
       response = <<>>

C3_Witness ==
  /\ op = "write_file" /\ pc = "done" /\ outcome = "ok"
  /\ start_address = 10
  /\ raw_content = <<esc_char, ack_char>>
  /\ wire = <<119, 32, 49, 48, 27, 27, 6, 4>>

\* C4: a write or read frame completes successfully only if the count on the
\* trailing line equals the number of logical (unescaped) bytes transferred,
\* also when the data contains ESCAPE or END.
C4_CountIsLogicalLength ==
  /\ (op \in WriteOps /\ pc = "done" /\ outcome = "ok") =>
       (IntParses(response) /\ IntValue(response) = Len(raw_content))
  /\ (op \in ReadOps /\ pc = "done" /\ ret # NoResult) =>
       (IntParses(response) /\ IntValue(response) = Len(ret))

\* the read loop as the protocol words it: what a stream decodes to and
\* where it leaves the receiver
RECURSIVE Decode(_)
Decode(s) ==
  IF s = <<>> THEN [st |-> "data", out |-> <<>>]
  ELSE LET p == Decode(SubSeq(s, 1, Len(s) - 1))
           b == s[Len(s)]
       IN  CASE p.st = "data" /\ b = 4 -> [st |-> "end", out |-> p.out]
             [] p.st = "data" /\ b = 27 -> [st |-> "esc", out |-> p.out]
             [] p.st = "data" /\ b \notin {4, 27} -> [st |-> "data", out |-> Append(p.out, b)]
             [] p.st = "esc" /\ b \in {4, 27} -> [st |-> "data", out |-> Append(p.out, b)]
             [] p.st = "esc" /\ b \notin {4, 27} -> [st |-> "invalid", out |-> p.out]
             [] OTHER -> [st |-> "overrun", out |-> p.out]

\* the operation got past the read header and its fate was decided by the data
InReadData ==
  /\ op \in ReadOps
  /\ pc \in {"r_loop", "r_esc", "r_count", "done"}
  /\ aw # "drain"
  /\ fault # "OSError"

\* C5: in the read loop an unescaped END ends the data; ESCAPE followed by END
\* or ESCAPE appends that byte and goes on; ESCAPE followed by anything else
\* or by nothing raises Invalid Escape and returns nothing; every other byte
\* is appended unchanged; the value returned is the unescaped data before END.
C5_ReadLoopUnescapes ==
  InReadData =>
    LET d == Decode(rx)
    IN  /\ content = d.out
        /\ (pc = "r_loop") <=> (d.st = "data")
        /\ (pc = "r_esc") <=> (d.st = "esc")
        /\ (pc = "r_count") => (d.st = "end")
        /\ (pc = "done") => (d.st \in {"end", "invalid"})
        /\ (fault = "InvalidEscape") <=> (d.st = "invalid")
        /\ (d.st = "invalid") => (ret = NoResult)
        /\ (ret # NoResult) => (d.st = "end" /\ ret = d.out)

C5_Witness ==
  /\ op = "read_file" /\ pc = "done" /\ outcome = "ok"
  /\ rx = <<27, 4, 255, 4>>
  /\ ret = <<4, 255>>

IsStrictPrefix(a, b) == Len(a) < Len(b) /\ a = SubSeq(b, 1, Len(a))

Payloads == UNION {[1..n -> PayloadBytes] : n \in 0..MaxLen}

\* C6: for every byte sequence S, the read loop fed escape_file_contents(S)
\* followed by END ends at that END, not earlier, and has rebuilt exactly S.
C6_RoundTrip ==
  InReadData =>
    \A S \in Payloads :
      LET W == escape_file_contents(S) \o <<end_char>>
      IN  /\ (rx = W) =>
               /\ pc \in {"r_count", "done"}
               /\ content = S
               /\ (ret # NoResult) => (ret = S)
          /\ IsStrictPrefix(rx, W) => (pc \in {"r_loop", "r_esc"})

C6_Witness ==
  /\ op = "read_file" /\ pc = "r_count"
  /\ rx = escape_file_contents(<<esc_char, end_char>>) \o <<end_char>>
  /\ content = <<esc_char, end_char>>

RECURSIVE EscRun(_, _)
EscRun(s, k) == IF k > 1 /\ s[k - 1] = 27 THEN 1 + EscRun(s, k - 1) ELSE 0

Region(m, a, n) == [k \in 1..n |-> m[a + k - 1]]

\* C8: verify issues Read(A, len(content)) and, when the read returns,
\* succeeds exactly if the bytes read equal the content, raising Content
\* Mismatch otherwise; so against a device that reads its memory back
\* faithfully it succeeds exactly if memory at [A, A+len) equals the content.
C8_VerifyIffEqual ==
  (op \in {"verify_file", "check_filled"} /\ pc = "done" /\ ret # NoResult) =>
    /\ wire = <<114, 32>> \o Decimal(start_address) \o Decimal(Len(raw_content))
    /\ (fault = "ok") <=> (ret = raw_content)
    /\ fault \in {"ok", "ContentMismatch"}
    /\ (op = "verify_file") => (outcome = fault)
    /\ (rx = Escaped(Region(mem, start_address, Len(raw_content))) \o <<4>>) =>
         ((fault = "ok") <=> (Region(mem, start_address, Len(raw_content)) = raw_content))

C8_Witness ==
  /\ op = "verify_file" /\ pc = "done" /\ nops = 1
  /\ start_address = 10
  /\ raw_content = <<ack_char, end_char>>
  /\ mem[10] = ack_char /\ mem[11] = 255
  /\ ret = <<ack_char, 255>>
  /\ outcome = "ContentMismatch"

\* C9: check_filled succeeds when the region reads back as length bytes equal
\* to fill_byte and fails with Not Filled, and nothing else, when any byte
\* read back differs.
C9_NotFilledOnDiscrepancy ==
  (op = "check_filled" /\ pc = "done" /\ ret # NoResult /\ Len(ret) = length) =>
    IF ret = [k \in 1..length |-> fill_byte]
    THEN outcome = "ok"
    ELSE outcome = "NotFilled"

\* C10: whatever the programmer does, an operation whose content source could
\* be obtained ends in success or in one of Link Fault, Invalid Escape, Count
\* Mismatch, Content Mismatch, Not Filled.
C10_TypedFaultsOnly ==
  (pc = "done" /\ fault # "OSError") =>
    outcome \in {"ok", "LinkFault", "InvalidEscape", "CountMismatch",
                 "ContentMismatch", "NotFilled"}

\* C13: after the terminating END of a read the decimal count line is
\* compared with the length of the escaped form of the buffer (its length plus
\* one per ESCAPE or END in it): equal, the raw buffer is returned; different,
\* Count Mismatch is raised.
C13_ReadCountIsEscapedLength ==
  (InReadData /\ pc = "done" /\ Decode(rx).st = "end" /\ IntParses(response)) =>
    LET wirelen == Len(content) + Specials(content)
    IN  /\ (IntValue(response) = wirelen) =>
             (ret = content /\ fault \in {"ok", "ContentMismatch"})
        /\ (IntValue(response) # wirelen) =>
             (ret = NoResult /\ fault = "CountMismatch")

C13_Witness ==
  /\ op = "read_file" /\ pc = "done" /\ outcome = "ok"
  /\ ret = <<esc_char>>
  /\ response = <<50, 10>>

\* the acknowledged sends of a write frame, in order
WriteTokens ==
  <<<<119, 32>>, Decimal(start_address)>>
    \o [k \in 1..Len(Escaped(raw_content)) |-> <<Escaped(raw_content)[k]>>]
    \o <<<<4>>>>

RECURSIVE Flatten(_)
Flatten(ss) == IF ss = <<>> THEN <<>> ELSE Head(ss) \o Flatten(Tail(ss))

\* C14: once an acknowledged send of a write has failed, nothing more is
\* written (the wire holds the sends up to the failed one, each once), the
\* count line is never read, and a Link Fault is the fault that surfaces,
\* never a Count Mismatch.
C14_LinkFaultAbortsWrite ==
  (op \in WriteOps /\ aw = "drain") =>
    /\ sends >= 1
    /\ acks = sends - 1
    /\ wire = Flatten(SubSeq(WriteTokens, 1, sends))
    /\ response = <<>>
    /\ fault \in {"none", "LinkFault", "UnicodeDecodeError"}
    /\ (pc = "done") <=> (fault # "none")
    /\ (fault = "LinkFault") => (outcome = "LinkFault")

C14_Witness ==
  /\ op = "write_file" /\ pc = "done" /\ fault = "LinkFault"
  /\ Len(raw_content) = 2
  /\ sends = 4 /\ acks = 3

\* C16: a verify that follows the write of the same content source (the
\* EEPROM holds that content at the address) obtains the same bytes and the
\* same length as the write did.
C16_SourceReadTwice ==
  LET source == IF file = "path" THEN disk ELSE stream_data
  IN  (/\ op = "verify_file" /\ pc # "v_load" /\ fault # "OSError"
       /\ nops = 1
       /\ source # <<>>
       /\ Region(mem, start_address, Len(source)) = source) =>
        (raw_content = source /\ length = Len(source))

ProtocolFaults == {"LinkFault", "InvalidEscape", "CountMismatch"}

\* C17: a protocol fault of the read under check_filled (Link Fault, Invalid
\* Escape, Count Mismatch) reaches the caller as that same fault.
C17_ProtocolFaultsPassThrough ==
  (op = "check_filled" /\ pc = "done" /\ fault \in ProtocolFaults) =>
    outcome = fault

\* C19: a read that ends in a protocol fault returns nothing, leaves the
\* output file as it was and leads to no comparison; the file changes only
\* when read_file got the bytes back, and then to exactly those bytes.
C19_NoPartialResult ==
  [][(op \in ReadOps /\ op' = op /\ pc # "done") =>
       /\ (fault' \in ProtocolFaults) => (ret' = NoResult /\ disk' = disk)
       /\ (disk' # disk) => (op = "read_file" /\ fault' = "ok" /\ disk' = ret')
       /\ (fault' = "ContentMismatch") => (ret' # NoResult)]_vars

C19_Witness ==
  /\ op = "read_file" /\ pc = "done" /\ fault = "CountMismatch"
  /\ content = <<ack_char, 255>>
  /\ ret = NoResult
  /\ disk # content

\* C20: a write whose content source cannot be obtained fails without having
\* sent any byte.
C20_NoByteBeforeSource ==
  (op \in WriteOps /\ fault = "OSError") => wire = <<>>

\* C15: a write or read frame that has begun eventually ends, by completing
\* or by raising its first fault, whenever every transport read returns
\* within the timeout (possibly with no byte).
C15_FramesEnd ==
  (pc \notin {"idle", "done"}) ~> (pc = "done")

\* the line the text describes for group k (from 0) of the input
GroupLine(k) ==
  LET first == 8 * k
      last  == IF first + 8 < Len(hex_in) THEN first + 8 ELSE Len(hex_in)
      Cell(j) == (IF j = first + 4 THEN <<32>> ELSE <<>>)
                   \o HexField(hex_in[j + 1], 2) \o <<32>>
  IN  address_format(first)
        \o Flatten([j \in 1..(last - first) |-> Cell(first + j - 1)])

\* C12: format_hex returns one line per started group of 8 input bytes and no
\* other element; line k starts with the address 0x(8k) in 4 hex digits and
\* holds the group's bytes as two-digit uppercase hex, in two blocks of 4.
C12_OneLinePerGroup ==
  (hex_out # NoLines) =>
    /\ Len(hex_out) = (Len(hex_in) + 7) \div 8
    /\ \A k \in 1..Len(hex_out) : hex_out[k] = GroupLine(k - 1)

\* C11 as stated: the port is closed on every exit of main, and a fault caught
\* at top level is reported only once the port is closed.
C11_ClosedBeforeReport ==
  /\ (mpc \in {"exit", "crashed"}) => (port = "closed")
  /\ (reported # "none") => (port = "closed")

\* C11, amended: the port is opened once, is open exactly while main is inside
\* the with block, and is closed at every exit of main (normal completion,
\* caught fault, any other error); a caught fault has been reported by then,
\* an uncaught error is never reported by main.
C11_ClosedOnEveryExit ==
  /\ (port = "unopened") <=> (mpc = "parsed")
  /\ (port = "open") <=> (mpc \in InWith)
  /\ (port = "closed") <=> (mpc \in {"exit", "crashed"})
  /\ (reported # "none") => (mpc \in {"leave", "exit"})
  /\ (mpc = "crashed") => (reported = "none")

C11_Witness ==
  /\ mpc = "exit" /\ port = "closed"
  /\ reported = "CountMismatch"
  /\ margs.mode = "write"

\* C18: reset drives the control line true, then false, then waits; until
\* that wait is over nothing is written to or read from the transport, and in
\* main no frame has begun; afterwards the line stays false.
C18_ResetBeforeFrames ==
  /\ (mpc \in {"pulse", "pulsed"}) => (dtr = TRUE)
  /\ (mpc \in (InWith \ InReset) \cup {"settle", "exit", "crashed"}) => (dtr = FALSE)
  /\ (mpc \in InReset \cup {"parsed"}) =>
       /\ pc = "idle" /\ op = "none"
       /\ wire = <<>> /\ sends = 0 /\ acks = 0
       /\ reply = NoByte /\ rx = <<>> /\ drained = <<>> /\ response = <<>>
  /\ (pc # "idle") => (mpc \in InStages)

C18_Witness ==
  /\ mpc = "in_clear" /\ dtr = FALSE
  /\ wire = <<119, 32>> /\ acks = 0

====
